---- MODULE Spec2Model ----
(***************************************************************************)
(* Change-validation, review-retry and commit pipeline of r1.py, together  *)
(* with the conversation-history curation it relies on.                    *)
(*                                                                         *)
(* Text is a sequence of characters.  A file content is a record           *)
(* [text, pad]: the characters of text followed by pad filler characters   *)
(* that occur in no snippet, so that len(content) can sit at the 5,000,000 *)
(* ceiling of create_file while the snippets stay short.                   *)
(* A path is the sequence of its segments (pathlib's Path.parts).          *)
(* A message is a record [role, kind, path, content]; kind stands for the  *)
(* text pattern the code looks for in msg["content"]: "file" is a message  *)
(* "Content of file '<path>':\n\n<content>", "op" a "File operation: ..."  *)
(* message, "feedback" a "Code Review Feedback ..." message.               *)
(***************************************************************************)
EXTENDS Naturals, Integers, Sequences, FiniteSets, TLC

\* ---------------------------------------------------------------- bounds
MaxLen == 3          \* longest text of a file or of a snippet
MaxTurns == 1        \* user turns (free text) in one run
MaxAdds == 1         \* /add commands in one run
MaxExternal == 1     \* changes of the disk by other processes in one run
MaxSys == 2          \* system messages after the base prompt in a drawn history
MaxExtra == 2        \* user/assistant messages beyond 2 * max_pairs in a drawn history

\* ------------------------------------------------------ program constants
SizeLimit == 5000000     \* create_file: len(content) > 5_000_000 is rejected
max_attempts == 3        \* main: max_attempts = 3
max_pairs == 10          \* trim_conversation_history: max_pairs = 10

Alphabet == {"a", "b"}
Cwd == <<"/", "w">>
NoFile == [text |-> <<"*">>, pad |-> 0]    \* the path does not exist on disk
Dir == [text |-> <<"/">>, pad |-> 0]       \* the path is a directory
NoPath == <<>>
NoText == [text |-> <<>>, pad |-> 0]

\* ------------------------------------------------------------------ text
Range(s) == {s[i] : i \in 1..Len(s)}

Strs(n) == UNION {[1..k -> Alphabet] : k \in 0..n}

\* len(content)
len(c) == Len(c.text) + c.pad

MatchAt(t, sub, i) ==
    /\ i + Len(sub) - 1 <= Len(t)
    /\ \A k \in 1..Len(sub) : t[i + k - 1] = sub[k]

\* str.count for a non-empty sub: occurrences found left to right, the scan
\* resuming after the end of each occurrence found
RECURSIVE CountFrom(_, _, _)
CountFrom(t, sub, i) ==
    IF i + Len(sub) - 1 > Len(t) THEN 0
    ELSE IF MatchAt(t, sub, i) THEN 1 + CountFrom(t, sub, i + Len(sub))
    ELSE CountFrom(t, sub, i + 1)

\* content.count(sub)
str_count(c, sub) ==
    IF Len(sub) = 0 THEN len(c) + 1 ELSE CountFrom(c.text, sub, 1)

\* index of the leftmost occurrence of sub in t (0: none)
FindFirst(t, sub) ==
    IF \E i \in 1..(Len(t) + 1) : MatchAt(t, sub, i)
    THEN CHOOSE i \in 1..(Len(t) + 1) :
            /\ MatchAt(t, sub, i)
            /\ \A j \in 1..(i - 1) : ~MatchAt(t, sub, j)
    ELSE 0

\* Faulty variant of str_replace_first: the text after the occurrence is cut one
\* character too late
str_replace_first_slip(c, sub, new) ==
    LET i == FindFirst(c.text, sub) IN
    IF i = 0 THEN c
    ELSE [text |-> SubSeq(c.text, 1, i - 1) \o new
                     \o SubSeq(c.text, i + Len(sub) + 1, Len(c.text)),
          pad |-> c.pad]

\* content.replace(sub, new, 1)
str_replace_first(c, sub, new) ==
    LET i == FindFirst(c.text, sub) IN
    IF i = 0 THEN c
    ELSE [text |-> SubSeq(c.text, 1, i - 1) \o new
                     \o SubSeq(c.text, i + Len(sub), Len(c.text)),
          pad |-> c.pad]

\* ----------------------------------------------------------------- paths
TildeSegs == {"~", "~h"}
StartsWithTilde(seg) == seg \in TildeSegs

\* Path(path_str).resolve(): a relative path is taken from the working
\* directory, "." is dropped, ".." removes the segment before it
RECURSIVE ResolveFrom(_, _)
ResolveFrom(acc, rest) ==
    IF rest = <<>> THEN acc
    ELSE IF Head(rest) = "." THEN ResolveFrom(acc, Tail(rest))
    ELSE IF Head(rest) = ".."
         THEN ResolveFrom(IF Len(acc) <= 1 THEN acc
                          ELSE SubSeq(acc, 1, Len(acc) - 1), Tail(rest))
    ELSE ResolveFrom(Append(acc, Head(rest)), Tail(rest))

Resolve(p) ==
    IF p # <<>> /\ Head(p) = "/" THEN ResolveFrom(<<"/">>, Tail(p))
    ELSE ResolveFrom(Cwd, p)

\* normalize_path raises ValueError when the resolved path has a ".." part
normalize_path_raises(p) == ".." \in Range(Resolve(p))
normalize_path(p) == Resolve(p)

RawPaths == {<<"a.txt">>, <<"..", "w", "a.txt">>, <<"~h", "b.txt">>}
CanonPaths == {Resolve(p) : p \in RawPaths}

\* what the user can give to /add: the file paths and the working directory
AddPaths == RawPaths \cup {<<".">>}

\* a path in a directory that does not exist yet
NestedPath == <<"d", "c.txt">>

\* file_path.parents
Ancestors(q) == {SubSeq(q, 1, k) : k \in 1..(Len(q) - 1)}

\* the paths of the disk: the files and the directories above them
DiskPaths ==
    LET files == CanonPaths \cup {Resolve(NestedPath)} IN
    files \cup UNION {Ancestors(q) : q \in files}

\* the disk that holds the files of f (file path -> content or NoFile) and
\* the directories they need, the working directory included
DiskOf(f) ==
    [q \in DiskPaths |->
        IF q \in DOMAIN f THEN f[q]
        ELSE IF q \in Ancestors(Cwd) \cup {Cwd} THEN Dir
        ELSE IF \E r \in DOMAIN f : f[r] # NoFile /\ q \in Ancestors(r) THEN Dir
        ELSE NoFile]

\* -------------------------------------------------------------- messages
None == [text |-> <<"-">>, pad |-> 0]      \* Python's None for a content

BaseMsg == [role |-> "system", kind |-> "prompt", path |-> NoPath, content |-> NoText]
FileMsg(p, c) == [role |-> "system", kind |-> "file", path |-> p, content |-> c]
OpMsg(p) == [role |-> "system", kind |-> "op", path |-> p, content |-> NoText]
FeedbackMsg(n) == [role |-> "system", kind |-> "feedback", path |-> <<n>>, content |-> NoText]
UserMsg(m) == [role |-> "user", kind |-> "user", path |-> m, content |-> NoText]

\* the i-th user/assistant message of a history, the roles alternating
UaMsg(i) ==
    [role |-> IF i % 2 = 1 THEN "user" ELSE "assistant",
     kind |-> IF i % 2 = 1 THEN "user" ELSE "assistant",
     path |-> NoPath, content |-> [text |-> <<>>, pad |-> i]]

\* msg["role"] == "system" and "Content of file '" in msg["content"]
IsFileMsg(m) == m.role = "system" /\ m.kind = "file"
IsUserAssistant(m) == m.role \in {"user", "assistant"}

\* Faulty variant of get_file_content_from_history: the newest snapshot wins
get_file_content_from_history_newest(p, h) ==
    LET hits == {i \in 1..Len(h) : IsFileMsg(h[i]) /\ h[i].path = normalize_path(p)} IN
    IF hits = {} THEN None
    ELSE h[CHOOSE i \in hits : \A j \in hits : i >= j].content

\* get_file_content_from_history: the first system message, oldest first,
\* that carries the marker of the normalized path
get_file_content_from_history(p, h) ==
    LET hits == {i \in 1..Len(h) : IsFileMsg(h[i]) /\ h[i].path = normalize_path(p)} IN
    IF hits = {} THEN None
    ELSE h[CHOOSE i \in hits : \A j \in hits : i <= j].content

\* Faulty variant of ensure_file_in_context: a snapshot is appended also when
\* the history has one of the path
ensure_file_in_context_always(p, h, d) ==
    IF d[normalize_path(p)] \in {NoFile, Dir} THEN h
    ELSE Append(h, FileMsg(normalize_path(p), d[normalize_path(p)]))

\* ensure_file_in_context: nothing when a snapshot exists or the file cannot
\* be read, else one snapshot of the content on disk
ensure_file_in_context(p, h, d) ==
    IF get_file_content_from_history(p, h) # None THEN h
    ELSE IF d[normalize_path(p)] \in {NoFile, Dir} THEN h
    ELSE Append(h, FileMsg(normalize_path(p), d[normalize_path(p)]))

\* the files below a directory that add_directory_to_conversation offers to
\* ensure_file_in_context: no name of the model is hidden or has an excluded
\* extension, no content holds a null byte; files above the size limit are
\* skipped
IsUnder(q, dir) == Len(q) > Len(dir) /\ SubSeq(q, 1, Len(dir)) = dir
Parent(q) == SubSeq(q, 1, Len(q) - 1)
WalkFiles(dir, d) ==
    {q \in DOMAIN d : IsUnder(q, dir) /\ d[q] \notin {NoFile, Dir} /\ len(d[q]) <= SizeLimit}

\* os.walk, top down: the files of a directory come before the files of the
\* directories below it; the order of the entries of one directory is free
WalkOrders(dir, d) ==
    LET F == WalkFiles(dir, d)
        n == Cardinality(F)
    IN {s \in [1..n -> F] :
          /\ \A i, j \in 1..n : i # j => s[i] # s[j]
          /\ \A i, j \in 1..n : i < j => ~IsUnder(Parent(s[i]), Parent(s[j]))}

\* add_directory_to_conversation: ensure_file_in_context for each file
RECURSIVE add_directory_to_conversation(_, _, _)
add_directory_to_conversation(files, h, d) ==
    IF files = <<>> THEN h
    ELSE add_directory_to_conversation(Tail(files),
                                       ensure_file_in_context(Head(files), h, d), d)

\* Faulty variant of trim_conversation_history: the first 2 * max_pairs
\* messages are kept
trim_conversation_history_first(h) ==
    LET system_msgs == SelectSeq(h, LAMBDA m : m.role = "system")
        other_msgs == SelectSeq(h, LAMBDA m : m.role # "system")
    IN system_msgs \o
         (IF Len(other_msgs) > max_pairs * 2
          THEN SubSeq(other_msgs, 1, max_pairs * 2)
          ELSE other_msgs)

\* trim_conversation_history
trim_conversation_history(h) ==
    LET system_msgs == SelectSeq(h, LAMBDA m : m.role = "system")
        other_msgs == SelectSeq(h, LAMBDA m : m.role # "system")
    IN system_msgs \o
         (IF Len(other_msgs) > max_pairs * 2
          THEN SubSeq(other_msgs, Len(other_msgs) - max_pairs * 2 + 1, Len(other_msgs))
          ELSE other_msgs)

\* Faulty variant of curate: the last user/assistant message is dropped when
\* their number is even
curate_parity_flipped(h, um) ==
    LET file_context == SelectSeq(Tail(h), IsFileMsg)
        ua == SelectSeq(Tail(h), IsUserAssistant)
        user_assistant_pairs ==
            IF Len(ua) % 2 = 0 /\ Len(ua) > 0 THEN SubSeq(ua, 1, Len(ua) - 1) ELSE ua
    IN <<h[1]>> \o file_context \o user_assistant_pairs \o <<um>>

\* Faulty variant of curate: an odd number of user/assistant messages is kept
curate_keep_odd(h, um) ==
    <<h[1]>> \o SelectSeq(Tail(h), IsFileMsg) \o SelectSeq(Tail(h), IsUserAssistant)
        \o <<um>>

\* the history rebuild at the start of stream_openai_response
curate(h, um) ==
    LET file_context == SelectSeq(Tail(h), IsFileMsg)
        ua == SelectSeq(Tail(h), IsUserAssistant)
        user_assistant_pairs ==
            IF Len(ua) % 2 # 0 THEN SubSeq(ua, 1, Len(ua) - 1) ELSE ua
    IN <<h[1]>> \o file_context \o user_assistant_pairs \o <<um>>

\* stream_openai_response up to the remote call: the rebuild, then
\* ensure_file_in_context for the path guessed from the message
StreamStart(h, d, m) ==
    LET cleaned == curate(h, UserMsg(m)) IN
    IF m = NoPath \/ normalize_path_raises(m) THEN cleaned
    ELSE ensure_file_in_context(normalize_path(m), cleaned, d)

\* ------------------------------------------------------------ change-sets
AB == [text |-> <<"a", "b">>, pad |-> 0]
AAA == [text |-> <<"a", "a", "a">>, pad |-> 0]
OverLimit == [text |-> <<"a", "b", "a">>, pad |-> SizeLimit - 2]

DiskContents == {AB, AAA}

FileToCreate(p, c) == [path |-> p, content |-> c]
FileToEdit(p, o, n) == [path |-> p, original_snippet |-> o, new_snippet |-> n]

CreateItems ==
    {FileToCreate(<<"a.txt">>, AB), FileToCreate(<<"~h", "b.txt">>, AB),
     FileToCreate(<<"a.txt">>, OverLimit)}
EditItems == {FileToEdit(<<"a.txt">>, o, <<"b">>) : o \in {<<"a">>, <<"a", "a">>}}

SeqsUpTo(S, n) == UNION {[1..k -> S] : k \in 0..n}

MaxChanges == 2      \* new files plus edits of one change-set

AssistantResponse(reply, cs, es) ==
    [assistant_reply |-> reply, files_to_create |-> cs, files_to_edit |-> es]

\* what the generation collaborator can send back
GenReplies ==
    {[kind |-> "json", files_to_create |-> ce[1], files_to_edit |-> ce[2]] :
        ce \in {x \in SeqsUpTo(CreateItems, MaxChanges) \X SeqsUpTo(EditItems, MaxChanges) :
                   Len(x[1]) + Len(x[2]) <= MaxChanges}}
    \cup {[kind |-> k, files_to_create |-> <<>>, files_to_edit |-> <<>>] :
        k \in {"empty", "bad_json", "api_error"}}
    \cup {[kind |-> "bad_json", files_to_create |-> <<FileToCreate(<<"a.txt">>, AB)>>,
           files_to_edit |-> <<>>]}

\* the replies that give a degraded response: text that is no JSON after the
\* brace repair (it can still hold entries of files, which are not read), and
\* a remote call or a construction of the response that raises
DegradedKinds == {"bad_json", "api_error"}

\* Faulty variant of ParseGeneration: the entries found in text that is no
\* JSON are used
ParseGeneration_salvage(r) ==
    IF r.kind = "json" THEN AssistantResponse("ok", r.files_to_create, r.files_to_edit)
    ELSE IF r.kind = "empty" THEN AssistantResponse("No response generated", <<>>, <<>>)
    ELSE AssistantResponse("error", r.files_to_create, r.files_to_edit)

\* the parse at the end of stream_openai_response
ParseGeneration(r) ==
    IF r.kind = "json" THEN AssistantResponse("ok", r.files_to_create, r.files_to_edit)
    ELSE IF r.kind = "empty" THEN AssistantResponse("No response generated", <<>>, <<>>)
    ELSE AssistantResponse("error", <<>>, <<>>)

\* ---------------------------------------------------------------- review
Verdicts == {"CORRECT", "INCORRECT", "UNECESSARY", "NEED_CHANGES"}
ReviewReplies == Verdicts \cup {"BOGUS", "MISSING", "BAD_JSON", "REMOTE_ERROR"}

NoReview == [output |-> "NONE", origin |-> "none", issues |-> <<>>]

\* Faulty variant of EditIssue: an edit of a file without a snapshot passes
EditIssue_skip_missing(e, h) ==
    LET content == get_file_content_from_history(e.path, h) IN
    IF content = None THEN <<>>
    ELSE IF str_count(content, e.original_snippet) = 0
         THEN <<[path |-> e.path, kind |-> "NOT_FOUND"]>>
    ELSE IF str_count(content, e.original_snippet) > 1
         THEN <<[path |-> e.path, kind |-> "AMBIGUOUS"]>>
    ELSE <<>>

\* validate_edits: the issue of one edit (<<>>: none)
EditIssue(e, h) ==
    LET content == get_file_content_from_history(e.path, h) IN
    IF content = None THEN <<[path |-> e.path, kind |-> "NOT_IN_CONTEXT"]>>
    ELSE IF str_count(content, e.original_snippet) = 0
         THEN <<[path |-> e.path, kind |-> "NOT_FOUND"]>>
    ELSE IF str_count(content, e.original_snippet) > 1
         THEN <<[path |-> e.path, kind |-> "AMBIGUOUS"]>>
    ELSE <<>>

\* Faulty variant of IssuesOf: the scan stops at the first failing edit
RECURSIVE IssuesOf_first_only(_, _)
IssuesOf_first_only(es, h) ==
    IF es = <<>> THEN <<>>
    ELSE IF EditIssue(Head(es), h) # <<>> THEN EditIssue(Head(es), h)
    ELSE IssuesOf_first_only(Tail(es), h)

\* validate_edits: the issues of all edits, in their order
RECURSIVE IssuesOf(_, _)
IssuesOf(es, h) ==
    IF es = <<>> THEN <<>> ELSE EditIssue(Head(es), h) \o IssuesOf(Tail(es), h)

\* validate_edits: None (NoReview) without issues, else the synthesized verdict
validate_edits(rd, h) ==
    LET issues == IssuesOf(rd.files_to_edit, h) IN
    IF issues # <<>>
    THEN [output |-> "NEED_CHANGES", origin |-> "local", issues |-> issues]
    ELSE NoReview

\* Faulty variant of generate_review_history: validation loads the file of
\* the first edit into the context when it has no snapshot
generate_review_history_loads(h, rd, d) ==
    IF rd.files_to_edit = <<>> THEN h
    ELSE ensure_file_in_context(rd.files_to_edit[1].path, h, d)

\* generate_review: conversation_history after the call; the function reads
\* it (lines 532, 544-555) and builds its own review_messages (line 617)
generate_review_history(h, rd, d) == h

\* Faulty variant of ParseReview: a reply that cannot be used counts as approval
ParseReview_default_correct(r) ==
    IF r \in Verdicts THEN [output |-> r, origin |-> "remote", issues |-> <<>>]
    ELSE [output |-> "CORRECT", origin |-> "error", issues |-> <<>>]

\* Faulty variant of ParseReview: a reply that cannot be used asks for another try
ParseReview_retry_on_error(r) ==
    IF r \in Verdicts THEN [output |-> r, origin |-> "remote", issues |-> <<>>]
    ELSE [output |-> "NEED_CHANGES", origin |-> "error", issues |-> <<>>]

\* generate_review after the remote call returned: the parse of the reply
\* (lines 632-665); every failure ends in a synthesized INCORRECT
ParseReview(r) ==
    IF r \in Verdicts THEN [output |-> r, origin |-> "remote", issues |-> <<>>]
    ELSE [output |-> "INCORRECT", origin |-> "error", issues |-> <<>>]

\* ------------------------------------------------------------ create_file
HasTildePart(p) == \E i \in 1..Len(p) : StartsWithTilde(p[i])

\* Faulty variant of create_file_raises: the size check uses >=
create_file_raises_at_limit(p, c) ==
    \/ HasTildePart(p)
    \/ normalize_path_raises(p)
    \/ len(c) >= SizeLimit

\* create_file raises ValueError before it writes anything
create_file_raises(p, c) ==
    \/ HasTildePart(p)
    \/ normalize_path_raises(p)
    \/ len(c) > SizeLimit

\* create_file: mkdir(parents=True, exist_ok=True), then the write
create_file_disk(d, p, c) ==
    [q \in DOMAIN d |->
        IF q = Resolve(p) THEN c
        ELSE IF q \in Ancestors(Resolve(p)) THEN Dir
        ELSE d[q]]

\* Faulty variant of create_file_history: only the "File operation" message
\* is appended
create_file_history_op_only(h, p, c) == Append(h, OpMsg(p))

\* Faulty variant of create_file_history: the new snapshot takes the place of
\* the older snapshots of the path
create_file_history_replace(h, p, c) ==
    LET keep(m) == ~(IsFileMsg(m) /\ m.path = normalize_path(p)) IN
    Append(Append(SelectSeq(h, keep), OpMsg(p)), FileMsg(normalize_path(p), c))

\* create_file, the two messages appended after the write
create_file_history(h, p, c) ==
    h \o <<OpMsg(p), FileMsg(normalize_path(p), c)>>

\* ------------------------------------------------------- apply_diff_edit
\* Faulty variant of edit_error: the first match is taken when there are several
edit_error_first_match(occurrences) ==
    IF occurrences = 0 THEN "NOT_FOUND" ELSE "OK"

\* the two raises of apply_diff_edit, from content.count(original_snippet)
edit_error(occurrences) ==
    IF occurrences = 0 THEN "NOT_FOUND"
    ELSE IF occurrences > 1 THEN "AMBIGUOUS"
    ELSE "OK"

\* ------------------------------------------------------------------ main
\* Faulty variant of loop_continues: one cycle too many
loop_continues_inclusive(n, rr) == n <= max_attempts /\ rr.output = "NEED_CHANGES"

\* Faulty variant of loop_continues: every verdict but CORRECT is retried
loop_continues_not_correct(n, rr) == n < max_attempts /\ rr.output # "CORRECT"

\* while attempt < max_attempts and review_response.output == "NEED_CHANGES"
loop_continues(n, rr) == n < max_attempts /\ rr.output = "NEED_CHANGES"

\* Faulty variant of should_commit: everything but a rejection is applied
should_commit_unless_rejected(rr) == rr.output \notin {"INCORRECT", "UNECESSARY"}

\* if review_response.output == "CORRECT"
should_commit(rr) == rr.output = "CORRECT"

\* Faulty variant of after_interrupt: the handlers "except Exception" of
\* the two calls also catch the interrupt, so the call returns to main
after_interrupt_caught(p) == IF p = "gen_wait" THEN "review" ELSE "decide"

\* KeyboardInterrupt is no Exception: the handlers of stream_openai_response
\* (line 824) and generate_review (line 658) let it pass, main has no handler
\* around the two calls, the process ends
after_interrupt(p) == "interrupted"

VARIABLES
    pc,               \* position of main: prompt, gen_wait, review, review_wait,
                      \* decide, commit, apply_write, finished, crashed,
                      \* interrupted; plan_wait inside generate_plan
    conversation_history,
    disk,             \* canonical path -> content, Dir or NoFile
    user_input,       \* the path the current user message mentions (or NoPath)
    response_data,    \* the change-set of the last generation call
    review_response,  \* the verdict of the last generate_review
    attempt,          \* main's attempt counter
    in_loop,          \* the current generate_review is the one of the while body
    idx,              \* commit: index of the next change, new files first
    content_read,     \* apply_diff_edit: content
    updated_content,  \* apply_diff_edit: updated_content
    apply_error,      \* outcome of the last apply_diff_edit
    outcome,          \* what main printed at the end of the last turn
    turns, adds, externals,          \* how often UserTurn, UserAdd, ExternalChange ran
    gen_reply,        \* history: the reply of the last generation call
    review_reply,     \* history: the reply to the last generate_review ("none": no remote call)
    gen_calls, review_calls, remote_calls, local_shorts,  \* history: calls of this turn
    verdicts,         \* history: the outputs generate_review returned in this turn
    written,          \* history: the (path, content) pairs written in this turn
    results,          \* history: per change committed so far, was it written
    commits,          \* history: how often this turn entered the commit phase
    original_history  \* generate_plan: the history saved for the time of the call

vars == <<pc, conversation_history, disk, user_input, response_data, review_response,
          attempt, in_loop, idx, content_read, updated_content, apply_error, outcome,
          turns, adds, externals, gen_reply, review_reply, gen_calls, review_calls, remote_calls,
          local_shorts, verdicts, written, results, commits, original_history>>

NoReply == [kind |-> "none", files_to_create |-> <<>>, files_to_edit |-> <<>>]
NoResponse == AssistantResponse("none", <<>>, <<>>)

InitCommon ==
    /\ user_input = NoPath
    /\ in_loop = FALSE
    /\ idx = 1
    /\ content_read = None
    /\ updated_content = None
    /\ apply_error = "none"
    /\ outcome = "none"
    /\ adds = 0
    /\ externals = 0
    /\ gen_reply = NoReply
    /\ review_reply = "none"
    /\ gen_calls = 0
    /\ review_calls = 0
    /\ remote_calls = 0
    /\ local_shorts = 0
    /\ verdicts = <<>>
    /\ written = <<>>
    /\ results = <<>>
    /\ commits = 0
    /\ original_history = <<>>

\* the state when main reaches its first prompt
Init ==
    /\ InitCommon
    /\ pc = "prompt"
    /\ conversation_history = <<BaseMsg>>
    /\ \E c \in DiskContents :
          disk = DiskOf([q \in CanonPaths |->
                            IF q = <<"/", "w", "a.txt">> THEN c ELSE NoFile])
    /\ response_data = NoResponse
    /\ review_response = NoReview
    /\ attempt = 1
    /\ turns = 0

UnchangedTurnHistory ==
    UNCHANGED <<gen_reply, review_reply, gen_calls, review_calls, remote_calls,
                local_shorts, verdicts, written, results, commits>>
UnchangedApply == UNCHANGED <<idx, content_read, updated_content, apply_error>>

\* another process changes, creates or deletes a file while the program waits
\* for a collaborator or is writing files
ExternalChange ==
    /\ pc \in {"gen_wait", "review_wait", "commit", "apply_write"}
    /\ externals < MaxExternal
    /\ \E p \in CanonPaths, c \in DiskContents \cup {NoFile} :
        /\ disk[p] # c
        /\ disk' = IF c = NoFile THEN [disk EXCEPT ![p] = NoFile]
                   ELSE create_file_disk(disk, p, c)
    /\ externals' = externals + 1
    /\ UNCHANGED <<pc, conversation_history, user_input, response_data, review_response,
                   attempt, in_loop, outcome, turns, adds>>
    /\ UnchangedApply
    /\ UnchangedTurnHistory
    /\ UNCHANGED original_history

\* main: "exit" or "quit", EOF or an interrupt at the prompt
UserExit ==
    /\ pc = "prompt"
    /\ pc' = "finished"
    /\ UNCHANGED <<conversation_history, disk, user_input, response_data, review_response,
                   attempt, in_loop, outcome, turns, adds, externals>>
    /\ UnchangedApply
    /\ UnchangedTurnHistory
    /\ UNCHANGED original_history

\* try_handle_add_command: the ValueError of normalize_path is not an OSError
\* and leaves main; a directory goes to add_directory_to_conversation; a
\* file that cannot be read is reported, any other file gets a new snapshot
AddCommand(p) ==
    IF normalize_path_raises(p)
    THEN pc' = "crashed" /\ UNCHANGED conversation_history
    ELSE /\ pc' = pc
         /\ IF disk[normalize_path(p)] = Dir
            THEN \E files \in WalkOrders(normalize_path(p), disk) :
                    conversation_history' =
                        add_directory_to_conversation(files, conversation_history, disk)
            ELSE conversation_history' =
                    IF disk[normalize_path(p)] = NoFile THEN conversation_history
                    ELSE Append(conversation_history,
                                FileMsg(normalize_path(p), disk[normalize_path(p)]))

\* main: the user enters "/add <path>"
UserAdd ==
    /\ pc = "prompt"
    /\ adds < MaxAdds
    /\ \E p \in AddPaths : AddCommand(p)
    /\ adds' = adds + 1
    /\ UNCHANGED <<disk, user_input, response_data, review_response,
                   attempt, in_loop, outcome, turns, externals>>
    /\ UnchangedApply
    /\ UnchangedTurnHistory
    /\ UNCHANGED original_history

\* main: a free-text turn up to the first remote generation call
StartTurn ==
    /\ pc = "prompt"
    /\ \E m \in {NoPath, <<"a.txt">>} :
        /\ user_input' = m
        /\ conversation_history' = StreamStart(conversation_history, disk, m)
    /\ pc' = "gen_wait"
    /\ attempt' = 1
    /\ in_loop' = FALSE
    /\ outcome' = "none"
    /\ response_data' = NoResponse
    /\ review_response' = NoReview
    /\ gen_reply' = NoReply
    /\ review_reply' = "none"
    /\ gen_calls' = 1
    /\ review_calls' = 0
    /\ remote_calls' = 0
    /\ local_shorts' = 0
    /\ verdicts' = <<>>
    /\ written' = <<>>
    /\ results' = <<>>
    /\ commits' = 0
    /\ idx' = 1
    /\ content_read' = None
    /\ updated_content' = None
    /\ apply_error' = "none"
    /\ UNCHANGED <<disk, adds, externals>>
    /\ UNCHANGED original_history

\* main: the next of at most MaxTurns free-text turns
UserTurn ==
    /\ turns < MaxTurns
    /\ StartTurn
    /\ turns' = turns + 1

\* stream_openai_response returns (lines 757-830) with the reply r
ReturnReply(r) ==
    /\ gen_reply' = r
    /\ response_data' = ParseGeneration(r)
    /\ pc' = "review"
    /\ UNCHANGED <<conversation_history, disk, user_input, review_response, attempt,
                   in_loop, outcome, turns, adds, externals, review_reply, gen_calls,
                   review_calls, remote_calls, local_shorts, verdicts, written, results,
                   commits>>
    /\ UnchangedApply
    /\ UNCHANGED original_history

\* the remote generation call returns or fails
GenReturn ==
    /\ pc = "gen_wait"
    /\ \E r \in GenReplies : ReturnReply(r)

\* the user presses Ctrl-C while the stream of the generation call or of the
\* review call is consumed (lines 757-779, 624-630)
Interrupt ==
    /\ pc \in {"gen_wait", "review_wait"}
    /\ pc' = after_interrupt(pc)
    /\ outcome' = "interrupted"
    /\ UNCHANGED <<conversation_history, disk, user_input, response_data, review_response,
                   attempt, in_loop, turns, adds, externals>>
    /\ UnchangedApply
    /\ UnchangedTurnHistory
    /\ UNCHANGED original_history

\* generate_review up to the remote call: validate_edits
LocalValidation ==
    /\ pc = "review"
    /\ review_calls' = review_calls + 1
    /\ review_reply' = "none"
    /\ LET v == validate_edits(response_data, conversation_history) IN
        IF v # NoReview
        THEN /\ review_response' = v
             /\ verdicts' = Append(verdicts, v.output)
             /\ local_shorts' = local_shorts + 1
             /\ attempt' = IF in_loop THEN attempt + 1 ELSE attempt
             /\ pc' = "decide"
             /\ UNCHANGED remote_calls
        ELSE /\ remote_calls' = remote_calls + 1
             /\ pc' = "review_wait"
             /\ UNCHANGED <<review_response, verdicts, local_shorts, attempt>>
    /\ conversation_history' =
          generate_review_history(conversation_history, response_data, disk)
    /\ UNCHANGED <<disk, user_input, response_data, in_loop,
                   outcome, turns, adds, externals, gen_reply, gen_calls, written,
                   results, commits>>
    /\ UnchangedApply
    /\ UNCHANGED original_history

\* generate_review: the remote call returns or fails (lines 624-665)
ReviewReturn ==
    /\ pc = "review_wait"
    /\ \E r \in ReviewReplies :
        /\ review_reply' = r
        /\ review_response' = ParseReview(r)
        /\ verdicts' = Append(verdicts, ParseReview(r).output)
    /\ attempt' = IF in_loop THEN attempt + 1 ELSE attempt
    /\ pc' = "decide"
    /\ UNCHANGED <<conversation_history, disk, user_input, response_data, in_loop,
                   outcome, turns, adds, externals, gen_reply, gen_calls, review_calls,
                   remote_calls, local_shorts, written, results, commits>>
    /\ UnchangedApply
    /\ UNCHANGED original_history

\* main, the while body up to the remote generation call (lines 950-960)
Retry ==
    /\ pc = "decide"
    /\ loop_continues(attempt, review_response)
    /\ conversation_history' =
          StreamStart(Append(conversation_history, FeedbackMsg(attempt)), disk, user_input)
    /\ gen_calls' = gen_calls + 1
    /\ in_loop' = TRUE
    /\ pc' = "gen_wait"
    /\ UNCHANGED <<disk, user_input, response_data, review_response, attempt, outcome,
                   turns, adds, externals, gen_reply, review_reply, review_calls,
                   remote_calls, local_shorts, verdicts, written, results, commits>>
    /\ UnchangedApply
    /\ UNCHANGED original_history

\* main: "Final rejection after ... attempts"
Reject ==
    /\ pc = "decide"
    /\ ~loop_continues(attempt, review_response)
    /\ ~should_commit(review_response)
    /\ outcome' = "rejected"
    /\ pc' = "prompt"
    /\ UNCHANGED <<conversation_history, disk, user_input, response_data, review_response,
                   attempt, in_loop, turns, adds, externals>>
    /\ UnchangedApply
    /\ UnchangedTurnHistory
    /\ UNCHANGED original_history

NChanges == Len(response_data.files_to_create) + Len(response_data.files_to_edit)
CurrentEdit == response_data.files_to_edit[idx - Len(response_data.files_to_create)]

\* main: the commit loops go on, or "Changes applied after ... attempts"
CommitAdvance ==
    /\ idx' = idx + 1
    /\ IF idx + 1 > NChanges
       THEN pc' = "prompt" /\ outcome' = "applied"
       ELSE pc' = "commit" /\ UNCHANGED outcome

\* main: the verdict is CORRECT (line 967)
EnterCommit ==
    /\ pc = "decide"
    /\ ~loop_continues(attempt, review_response)
    /\ should_commit(review_response)
    /\ commits' = commits + 1
    /\ idx' = 1
    /\ IF NChanges = 0
       THEN pc' = "prompt" /\ outcome' = "applied"
       ELSE pc' = "commit" /\ UNCHANGED outcome
    /\ UNCHANGED <<conversation_history, disk, user_input, response_data, review_response,
                   attempt, in_loop, turns, adds, externals, content_read,
                   updated_content, apply_error, gen_reply, review_reply, gen_calls,
                   review_calls, remote_calls, local_shorts, verdicts, written, results>>
    /\ UNCHANGED original_history

\* main: create_file for the next new file (lines 968-970); its ValueError
\* is caught nowhere
CommitCreate ==
    /\ pc = "commit"
    /\ idx <= Len(response_data.files_to_create)
    /\ LET f == response_data.files_to_create[idx] IN
        IF create_file_raises(f.path, f.content)
        THEN /\ pc' = "crashed"
             /\ results' = Append(results, FALSE)
             /\ UNCHANGED <<conversation_history, disk, written, idx, outcome>>
        ELSE /\ disk' = create_file_disk(disk, f.path, f.content)
             /\ conversation_history' =
                   create_file_history(conversation_history, f.path, f.content)
             /\ written' = Append(written, <<Resolve(f.path), f.content>>)
             /\ results' = Append(results, TRUE)
             /\ CommitAdvance
    /\ UNCHANGED <<user_input, response_data, review_response, attempt, in_loop, turns,
                   adds, externals, content_read, updated_content, apply_error,
                   gen_reply, review_reply, gen_calls, review_calls, remote_calls,
                   local_shorts, verdicts, commits>>
    /\ UNCHANGED original_history

\* apply_diff_edit for the next edit, up to the replace (lines 288-300)
ApplyEditRead ==
    /\ pc = "commit"
    /\ idx > Len(response_data.files_to_create)
    /\ LET e == CurrentEdit
           content == disk[Resolve(e.path)]
           err == IF content = NoFile THEN "FILE_NOT_FOUND"
                  ELSE edit_error(str_count(content, e.original_snippet))
       IN
        /\ content_read' = IF content = NoFile THEN None ELSE content
        /\ IF err = "OK"
           THEN /\ updated_content' =
                      str_replace_first(content, e.original_snippet, e.new_snippet)
                /\ pc' = "apply_write"
                /\ UNCHANGED <<apply_error, results, idx, outcome>>
           ELSE /\ apply_error' = err
                /\ results' = Append(results, FALSE)
                /\ CommitAdvance
                /\ UNCHANGED updated_content
    /\ UNCHANGED <<conversation_history, disk, user_input, response_data, review_response,
                   attempt, in_loop, turns, adds, externals, gen_reply, review_reply,
                   gen_calls, review_calls, remote_calls, local_shorts, verdicts, written,
                   commits>>
    /\ UNCHANGED original_history

\* apply_diff_edit: create_file(path, updated_content) and the message after
\* it (lines 301-307), or the ValueError of create_file caught at line 310
ApplyEditWrite ==
    /\ pc = "apply_write"
    /\ LET e == CurrentEdit IN
        IF create_file_raises(e.path, updated_content)
        THEN /\ apply_error' = "REJECTED"
             /\ results' = Append(results, FALSE)
             /\ UNCHANGED <<conversation_history, disk, written>>
        ELSE /\ disk' = create_file_disk(disk, e.path, updated_content)
             /\ conversation_history' =
                   Append(create_file_history(conversation_history, e.path, updated_content),
                          OpMsg(e.path))
             /\ written' = Append(written, <<Resolve(e.path), updated_content>>)
             /\ results' = Append(results, TRUE)
             /\ apply_error' = "OK"
    /\ CommitAdvance
    /\ UNCHANGED <<user_input, response_data, review_response, attempt, in_loop, turns,
                   adds, externals, content_read, updated_content, gen_reply, review_reply,
                   gen_calls, review_calls, remote_calls, local_shorts, verdicts, commits>>
    /\ UNCHANGED original_history

Next ==
    \/ UserExit
    \/ UserAdd
    \/ UserTurn
    \/ GenReturn
    \/ Interrupt
    \/ LocalValidation
    \/ ReviewReturn
    \/ Retry
    \/ Reject
    \/ EnterCommit
    \/ CommitCreate
    \/ ApplyEditRead
    \/ ApplyEditWrite

Spec == Init /\ [][Next]_vars

TypeOK ==
    /\ pc \in {"prompt", "gen_wait", "review", "review_wait", "decide", "commit",
               "apply_write", "finished", "crashed", "interrupted", "plan_wait"}
    /\ attempt \in 1..max_attempts
    /\ Len(verdicts) <= max_attempts

\* ----------------------------------------------------------------------
\* The edit of one file, for every content and every snippet up to MaxLen:
\* main is in its last generate-and-review cycle, the file was added earlier,
\* the generation call has just returned one edit of it.
Contents == {[text |-> t, pad |-> n] : t \in Strs(MaxLen), n \in {0, SizeLimit - MaxLen}}

InitEdit ==
    /\ user_input = NoPath /\ idx = 1
    /\ content_read = None /\ updated_content = None /\ apply_error = "none"
    /\ outcome = "none" /\ adds = 1 /\ externals = 0
    /\ review_reply = "NEED_CHANGES" 
    /\ gen_calls = max_attempts /\ review_calls = max_attempts - 1
    /\ remote_calls = max_attempts - 1 /\ local_shorts = 0
    /\ verdicts = <<"NEED_CHANGES", "NEED_CHANGES">>
    /\ written = <<>> /\ results = <<>> /\ commits = 0
    /\ in_loop = TRUE
    /\ pc = "review"
    /\ \E p \in {<<"a.txt">>, <<"~h", "b.txt">>}, c \in Contents, other \in {AB, AAA},
          o \in Strs(MaxLen), n \in Strs(MaxLen) :
        /\ \E snap \in {c, other}, live \in {c, other, NoFile} :
            /\ c \in {snap, live}
            /\ conversation_history = <<BaseMsg, FileMsg(Resolve(p), snap), UserMsg(NoPath)>>
            /\ disk = DiskOf([q \in CanonPaths |-> IF q = Resolve(p) THEN live ELSE NoFile])
        /\ response_data = AssistantResponse("ok", <<>>, <<FileToEdit(p, o, n)>>)
        /\ gen_reply = [kind |-> "json", files_to_create |-> <<>>,
                        files_to_edit |-> <<FileToEdit(p, o, n)>>]
    /\ review_response = [output |-> "NEED_CHANGES", origin |-> "remote", issues |-> <<>>]
    /\ attempt = max_attempts - 1
    /\ turns = 1
    /\ original_history = <<>>

NextEdit ==
    \/ LocalValidation
    \/ ReviewReturn
    \/ Reject
    \/ EnterCommit
    \/ ApplyEditRead
    \/ ApplyEditWrite

SpecEdit == InitEdit /\ [][NextEdit]_vars

\* The same cycle for a file that other processes change while the program
\* waits for the reviewer and while it commits: the snapshot and the content
\* on disk agree when the cycle starts.
InitRace ==
    /\ InitEdit
    /\ response_data.files_to_edit \in [1..1 -> EditItems]
    /\ disk[<<"/", "w", "a.txt">>] \in DiskContents
    /\ get_file_content_from_history(<<"a.txt">>, conversation_history)
          = disk[<<"/", "w", "a.txt">>]

NextRace == NextEdit \/ ExternalChange

SpecRace == InitRace /\ [][NextRace]_vars

\* ----------------------------------------------------------------------
\* create_file for one new file, for every content up to MaxLen characters of
\* text, below, at and above the size limit: the reviewer has just answered
\* CORRECT to a change-set of one new file.
CreateContents ==
    {[text |-> t, pad |-> n] :
        t \in Strs(MaxLen), n \in {0, SizeLimit - MaxLen, SizeLimit - MaxLen + 1}}

InitCreate ==
    /\ user_input = NoPath /\ idx = 1
    /\ content_read = None /\ updated_content = None /\ apply_error = "none"
    /\ outcome = "none" /\ externals = 0
    /\ review_reply = "CORRECT" 
    /\ gen_calls = 1 /\ review_calls = 1 /\ remote_calls = 1 /\ local_shorts = 0
    /\ verdicts = <<"CORRECT">>
    /\ written = <<>> /\ results = <<>> /\ commits = 0
    /\ in_loop = FALSE
    /\ pc = "decide"
    /\ \E p \in RawPaths \cup {NestedPath}, c \in CreateContents,
          live \in {AB, NoFile}, snap \in {AB, AAA, None} :
        /\ snap # None => live # NoFile
        /\ adds = IF snap = None THEN 0 ELSE 1
        /\ conversation_history =
              IF snap = None THEN <<BaseMsg, UserMsg(NoPath)>>
              ELSE <<BaseMsg, FileMsg(Resolve(p), snap), UserMsg(NoPath)>>
        /\ disk = DiskOf([q \in {Resolve(p)} |-> live])
        /\ response_data = AssistantResponse("ok", <<FileToCreate(p, c)>>, <<>>)
        /\ gen_reply = [kind |-> "json", files_to_create |-> <<FileToCreate(p, c)>>,
                        files_to_edit |-> <<>>]
    /\ review_response = [output |-> "CORRECT", origin |-> "remote", issues |-> <<>>]
    /\ attempt = 1
    /\ turns = 1
    /\ original_history = <<>>

NextCreate ==
    \/ EnterCommit
    \/ CommitCreate

SpecCreate == InitCreate /\ [][NextCreate]_vars

\* ----------------------------------------------------------------------
\* The functions that read and rebuild conversation_history, for histories
\* drawn from a bounded set: the base prompt, then user and assistant
\* messages in turn, few or about 2 * max_pairs of them, with up to MaxSys
\* system messages at the front, after the first or at the end.
SysMsgs ==
    {FileMsg(<<"/", "w", "a.txt">>, AB), FileMsg(<<"/", "w", "a.txt">>, AAA),
     FileMsg(<<"/", "w", "~h", "b.txt">>, AB), OpMsg(<<"a.txt">>), FeedbackMsg(1)}

UaCounts == (0..(MaxExtra + 1)) \cup ((2 * max_pairs - 1)..(2 * max_pairs + MaxExtra))

\* the messages from the k-th user/assistant message on: sys[j] stands
\* after pos[j] user/assistant messages
RECURSIVE Interleave(_, _, _, _)
Interleave(k, n, sys, pos) ==
    IF sys # <<>> /\ Head(pos) <= k
    THEN <<Head(sys)>> \o Interleave(k, n, Tail(sys), Tail(pos))
    ELSE IF k < n THEN <<UaMsg(k + 1)>> \o Interleave(k + 1, n, sys, pos)
    ELSE <<>>

InitHistory ==
    /\ InitCommon
    /\ pc = "prompt"
    /\ disk = DiskOf([q \in {<<"/", "w", "a.txt">>} |-> AB])
    /\ response_data = NoResponse
    /\ review_response = NoReview
    /\ attempt = 1
    /\ turns = 0
    /\ \E n \in UaCounts, sys \in SeqsUpTo(SysMsgs, MaxSys) :
         \E pos \in [1..Len(sys) -> {0, 1, n}] :
            /\ \A i \in 1..Len(sys), j \in 1..Len(sys) : i <= j => pos[i] <= pos[j]
            /\ \A i \in 1..Len(sys) : pos[i] <= n
            /\ conversation_history = <<BaseMsg>> \o Interleave(0, n, sys, pos)

\* a call of trim_conversation_history at the prompt
Trim ==
    /\ pc = "prompt"
    /\ conversation_history' = trim_conversation_history(conversation_history)
    /\ conversation_history' # conversation_history
    /\ UNCHANGED <<pc, disk, user_input, response_data, review_response,
                   attempt, in_loop, outcome, turns, adds, externals>>
    /\ UnchangedApply
    /\ UnchangedTurnHistory
    /\ UNCHANGED original_history

NextHistory ==
    \/ UserTurn
    \/ Trim

SpecHistory == InitHistory /\ [][NextHistory]_vars

\* ----------------------------------------------------------------------
\* The turn that follows a degraded response: the first generation call of a
\* turn has just returned text that is no JSON, or has failed.
InitDegraded ==
    /\ idx = 1
    /\ content_read = None /\ updated_content = None /\ apply_error = "none"
    /\ outcome = "none" /\ externals = 0
    /\ review_reply = "none"
    /\ gen_calls = 1 /\ review_calls = 0 /\ remote_calls = 0 /\ local_shorts = 0
    /\ verdicts = <<>>
    /\ written = <<>> /\ results = <<>> /\ commits = 0
    /\ in_loop = FALSE
    /\ pc = "review"
    /\ review_response = NoReview
    /\ attempt = 1
    /\ turns = 1
    /\ \E c \in DiskContents, added \in BOOLEAN, m \in {NoPath, <<"a.txt">>},
          r \in {x \in GenReplies : x.kind \in DegradedKinds} :
        /\ disk = DiskOf([q \in {<<"/", "w", "a.txt">>} |-> c])
        /\ adds = IF added THEN 1 ELSE 0
        /\ user_input = m
        /\ conversation_history =
              StreamStart(IF added THEN <<BaseMsg, FileMsg(<<"/", "w", "a.txt">>, c)>>
                          ELSE <<BaseMsg>>,
                          DiskOf([q \in {<<"/", "w", "a.txt">>} |-> c]), m)
        /\ gen_reply = r
        /\ response_data = ParseGeneration(r)
    /\ original_history = <<>>

NextDegraded ==
    \/ GenReturn
    \/ Interrupt
    \/ LocalValidation
    \/ ReviewReturn
    \/ Retry
    \/ Reject
    \/ EnterCommit
    \/ CommitCreate
    \/ ApplyEditRead
    \/ ApplyEditWrite

SpecDegraded == InitDegraded /\ [][NextDegraded]_vars

\* ----------------------------------------------------------------------
\* The ways a file gets into the history: /add of a file or of the working
\* directory, a user message that names the file, and a commit that writes
\* it. The generation collaborator proposes at most the one new file a.txt.
SnapshotReplies ==
    {r \in GenReplies :
        /\ r.files_to_edit = <<>>
        /\ r.files_to_create \in {<<>>, <<FileToCreate(<<"a.txt">>, AB)>>}}

GenReturnSnapshots ==
    /\ pc = "gen_wait"
    /\ \E r \in SnapshotReplies : ReturnReply(r)

NextSnapshots ==
    \/ UserAdd
    \/ UserTurn
    \/ GenReturnSnapshots
    \/ LocalValidation
    \/ ReviewReturn
    \/ Retry
    \/ Reject
    \/ EnterCommit
    \/ CommitCreate

SpecSnapshots == Init /\ [][NextSnapshots]_vars

\* ----------------------------------------------------------------------
\* generate_plan, which main calls only when plan_turned_on is set (it is
\* False at line 893): the history is saved, replaced by the planning prompt
\* and the file snapshots for the time of one stream_openai_response, and
\* restored when that call returns, fails or is interrupted. Around it the
\* user adds files, starts turns whose change-set creates at most a.txt, and
\* trim_conversation_history is called at the prompt.
PlanMsg == [role |-> "system", kind |-> "plan_prompt", path |-> NoPath, content |-> NoText]

\* generate_plan: planning_history (lines 677-680)
planning_history(h) == <<PlanMsg>> \o SelectSeq(h, IsFileMsg)

\* Faulty variant of generate_plan_finally: the history of the planning call
\* stays
generate_plan_finally_keep(h, orig) == h

\* generate_plan: the finally clause (lines 703-708)
generate_plan_finally(h, orig) ==
    IF orig = <<>> THEN orig ELSE [orig EXCEPT ![1] = orig[1]]

PlanStart ==
    /\ pc = "prompt"
    /\ original_history' = conversation_history
    /\ \E m \in {NoPath, <<"a.txt">>} :
          conversation_history' =
              StreamStart(planning_history(conversation_history), disk, m)
    /\ pc' = "plan_wait"
    /\ UNCHANGED <<disk, user_input, response_data, review_response,
                   attempt, in_loop, outcome, turns, adds, externals>>
    /\ UnchangedApply
    /\ UnchangedTurnHistory

PlanReturn ==
    /\ pc = "plan_wait"
    /\ conversation_history' = generate_plan_finally(conversation_history, original_history)
    /\ original_history' = <<>>
    /\ pc' = "prompt"
    /\ UNCHANGED <<disk, user_input, response_data, review_response,
                   attempt, in_loop, outcome, turns, adds, externals>>
    /\ UnchangedApply
    /\ UnchangedTurnHistory

NextPlan ==
    \/ UserAdd
    \/ PlanStart
    \/ PlanReturn
    \/ Trim
    \/ UserTurn
    \/ GenReturnSnapshots
    \/ LocalValidation
    \/ ReviewReturn
    \/ Retry
    \/ Reject
    \/ EnterCommit
    \/ CommitCreate

SpecPlan == Init /\ [][NextPlan]_vars

\* ----------------------------------------------------------------------
\* main with the scheduling of a turn: a pending generation or review call
\* returns or fails, and main takes its next step when it has one. Nothing
\* makes the user enter a line or press Ctrl-C.
TurnStep ==
    \/ GenReturn
    \/ LocalValidation
    \/ ReviewReturn
    \/ Retry
    \/ Reject
    \/ EnterCommit
    \/ CommitCreate
    \/ ApplyEditRead
    \/ ApplyEditWrite

SpecFair == Init /\ [][Next]_vars /\ WF_vars(TurnStep)

\* ----------------------------------------------------------------------
\* The turn loop of main without an end: the user never leaves and goes on
\* entering free text, the generation collaborator proposes no change, so
\* that the history does not grow by the snapshots of written files. A
\* collaborator call that is pending returns, and main goes on when it can.
LiveReplies == {r \in GenReplies : r.files_to_create = <<>> /\ r.files_to_edit = <<>>}

InitLive == Init

\* main: one more free-text turn, not counted
UserTurnLive == StartTurn /\ UNCHANGED turns

GenReturnLive ==
    /\ pc = "gen_wait"
    /\ \E r \in LiveReplies : ReturnReply(r)

NextLive ==
    \/ UserAdd
    \/ UserTurnLive
    \/ GenReturnLive
    \/ LocalValidation
    \/ ReviewReturn
    \/ Retry
    \/ Reject
    \/ EnterCommit

SpecLive == InitLive /\ [][NextLive]_vars /\ WF_vars(NextLive)

\* ----------------------------------------------------------------------
\* ensure_file_in_context called again and again for one path: turns whose
\* user message names a.txt, with retries, while other processes change the
\* file; the generation collaborator proposes no change.
NextEnsure ==
    \/ UserTurn
    \/ ExternalChange
    \/ GenReturnLive
    \/ LocalValidation
    \/ ReviewReturn
    \/ Retry
    \/ Reject
    \/ EnterCommit

SpecEnsure == Init /\ [][NextEnsure]_vars

\* ----------------------------------------------------------------------
\* Properties

\* the positions where sub occurs in content as an exact substring
Occurrences(c, sub) ==
    IF Len(sub) = 0 THEN len(c) + 1
    ELSE Cardinality({i \in 1..Len(c.text) : MatchAt(c.text, sub, i)})

KindOf(n) == IF n = 0 THEN "NOT_FOUND" ELSE IF n = 1 THEN "OK" ELSE "AMBIGUOUS"

\* after is before with one occurrence of orig replaced by new
SplicedFrom(before, after, orig, new) ==
    /\ after.pad = before.pad
    /\ \E i \in 1..(Len(before.text) + 1) :
        /\ MatchAt(before.text, orig, i)
        /\ after.text = SubSeq(before.text, 1, i - 1) \o new
                          \o SubSeq(before.text, i + Len(orig), Len(before.text))

TheEdit == response_data.files_to_edit[1]
TheSnapshot == get_file_content_from_history(TheEdit.path, conversation_history)
TurnEnded == pc = "prompt" /\ outcome # "none"
AllOrNone(rs) == (\A i \in 1..Len(rs) : rs[i]) \/ (\A i \in 1..Len(rs) : ~rs[i])
InvalidReplies == ReviewReplies \ Verdicts

\* C1: the program changes a file only in the commit phase of a turn whose
\* last verdict, given for the last generated change-set, is CORRECT; a turn
\* that ends in rejection has written nothing.
C1_WriteOnlyOnCorrect ==
    [][ /\ ((disk' # disk /\ externals' = externals) \/ Len(written') > Len(written)) =>
             /\ pc \in {"commit", "apply_write"}
             /\ review_response.output = "CORRECT"
             /\ verdicts # <<>> /\ verdicts[Len(verdicts)] = "CORRECT"
             /\ review_calls = gen_calls
        /\ outcome' = "rejected" => written' = <<>>
      ]_vars

C1_Witness ==
    /\ written # <<>>
    /\ verdicts = <<"NEED_CHANGES", "NEED_CHANGES", "CORRECT">>

\* C2: after the commit phase, every change of the change-set was written or
\* none was.
C2_AllOrNothing ==
    (commits = 1 /\ pc \in {"prompt", "crashed"}) => AllOrNone(results)

\* C3: the commit phase is entered at most once per turn, after the remote
\* reviewer answered CORRECT to the change-set of the last generation call,
\* which passes validate_edits; what is written comes from that change-set.
C3_CommitsLastReviewedChangeSet ==
    /\ commits <= 1
    /\ commits = 1 =>
        /\ review_response.output = "CORRECT"
        /\ review_response.origin = "remote"
        /\ review_reply = "CORRECT"
        /\ review_calls = gen_calls
        /\ IssuesOf(gen_reply.files_to_edit, conversation_history) = <<>>
        /\ Len(results) <= Len(gen_reply.files_to_create) + Len(gen_reply.files_to_edit)
        /\ \A k \in 1..Len(written) :
            \/ \E i \in 1..Len(gen_reply.files_to_create) :
                  written[k] = <<Resolve(gen_reply.files_to_create[i].path),
                                 gen_reply.files_to_create[i].content>>
            \/ \E i \in 1..Len(gen_reply.files_to_edit) :
                  written[k][1] = Resolve(gen_reply.files_to_edit[i].path)
    /\ written # <<>> => commits = 1

C3_Witness ==
    /\ commits = 1
    /\ gen_calls = 2
    /\ Len(written) = 2

\* the edits of the change-set that validate_edits cannot place in the
\* snapshot of their file
FailingEdits ==
    {k \in 1..Len(response_data.files_to_edit) :
        LET e == response_data.files_to_edit[k]
            snap == get_file_content_from_history(e.path, conversation_history)
        IN snap = None \/ str_count(snap, e.original_snippet) # 1}

FailureKind(e) ==
    LET snap == get_file_content_from_history(e.path, conversation_history) IN
    IF snap = None THEN "NOT_IN_CONTEXT"
    ELSE IF str_count(snap, e.original_snippet) = 0 THEN "NOT_FOUND"
    ELSE "AMBIGUOUS"

\* C4: when an edit fails local validation, generate_review makes no remote
\* call and returns a synthesized NEED_CHANGES whose analysis has one issue
\* per failing edit, with its path and its kind of failure.
C4_LocalShortCircuit ==
    [][ (pc = "review" /\ FailingEdits # {}) =>
          /\ pc' = "decide"
          /\ remote_calls' = remote_calls
          /\ review_reply' = "none"
          /\ review_response'.output = "NEED_CHANGES"
          /\ review_response'.origin = "local"
          /\ Len(review_response'.issues) = Cardinality(FailingEdits)
          /\ \A k \in FailingEdits :
                \E j \in 1..Len(review_response'.issues) :
                    /\ j = Cardinality({i \in FailingEdits : i <= k})
                    /\ review_response'.issues[j].path = response_data.files_to_edit[k].path
                    /\ review_response'.issues[j].kind =
                          FailureKind(response_data.files_to_edit[k])
      ]_vars

C4_Witness ==
    /\ pc = "decide"
    /\ review_response.origin = "local"
    /\ Len(review_response.issues) = 2
    /\ remote_calls = 0

\* C5: a turn in which every review returned NEED_CHANGES ends in rejection
\* after exactly 3 generate-and-review cycles, with attempt = 3, and with 3
\* remote review calls less the cycles that local validation cut short; the
\* attempt counter equals the number of cycles completed.
C5_RetryBudget ==
    /\ pc = "decide" => attempt = Len(verdicts)
    /\ (TurnEnded /\ \A i \in 1..Len(verdicts) : verdicts[i] = "NEED_CHANGES") =>
          /\ Len(verdicts) = 3
          /\ attempt = 3
          /\ gen_calls = 3
          /\ review_calls = 3
          /\ remote_calls + local_shorts = 3
          /\ outcome = "rejected"

C5_Witness ==
    /\ TurnEnded
    /\ verdicts = <<"NEED_CHANGES", "NEED_CHANGES", "NEED_CHANGES">>
    /\ remote_calls = 2
    /\ local_shorts = 1

\* C6: both checks classify an edit by the number of occurrences of the
\* snippet as an exact substring: Ok for one, AMBIGUOUS for more, NOT_FOUND
\* for none.
C6_ValidationCountsOccurrences ==
    /\ (pc = "review_wait" /\ TheSnapshot # None) =>
          KindOf(Occurrences(TheSnapshot, TheEdit.original_snippet)) = "OK"
    /\ (pc = "decide" /\ review_response.origin = "local" /\ TheSnapshot # None) =>
          /\ Len(review_response.issues) = 1
          /\ review_response.issues[1].kind =
                KindOf(Occurrences(TheSnapshot, TheEdit.original_snippet))
    /\ pc = "apply_write" =>
          KindOf(Occurrences(content_read, TheEdit.original_snippet)) = "OK"
    /\ apply_error \in {"NOT_FOUND", "AMBIGUOUS"} =>
          apply_error = KindOf(Occurrences(content_read, TheEdit.original_snippet))

AcceptedByCreateFile(p, c, orig, new) ==
    /\ \A i \in 1..Len(p) : p[i] \notin {"~", "~h"}
    /\ len(c) - Len(orig) + Len(new) <= 5000000

ApplyReturned == pc = "prompt" /\ outcome = "applied" /\ Len(results) = 1

\* C7 as claimed: apply_diff_edit decides from the content it read, and when
\* the snippet occurs exactly once in it the file afterwards is that content
\* with the occurrence replaced by the new snippet.
C7_AppliesSplice ==
    /\ pc = "apply_write" => content_read = disk[Resolve(TheEdit.path)]
    /\ (ApplyReturned /\ content_read # None
          /\ Occurrences(content_read, TheEdit.original_snippet) = 1) =>
          /\ written # <<>>
          /\ SplicedFrom(content_read, disk[Resolve(TheEdit.path)],
                         TheEdit.original_snippet, TheEdit.new_snippet)

\* C7 amended: ... provided create_file accepts the path (no segment starting
\* with '~') and the updated content (at most 5,000,000 characters);
\* otherwise nothing is written and the file keeps the content read.
C7_AppliesSpliceWhenAccepted ==
    /\ pc = "apply_write" => content_read = disk[Resolve(TheEdit.path)]
    /\ (ApplyReturned /\ content_read # None
          /\ Occurrences(content_read, TheEdit.original_snippet) = 1) =>
          IF AcceptedByCreateFile(TheEdit.path, content_read,
                                  TheEdit.original_snippet, TheEdit.new_snippet)
          THEN /\ Len(written) = 1
               /\ written[1][1] = Resolve(TheEdit.path)
               /\ written[1][2] = disk[Resolve(TheEdit.path)]
               /\ SplicedFrom(content_read, disk[Resolve(TheEdit.path)],
                              TheEdit.original_snippet, TheEdit.new_snippet)
          ELSE /\ written = <<>>
               /\ disk[Resolve(TheEdit.path)] = content_read

C7_Witness ==
    /\ ApplyReturned
    /\ content_read = [text |-> <<"a", "b", "a">>, pad |-> 0]
    /\ TheEdit.original_snippet = <<"b">>
    /\ TheEdit.new_snippet = <<"a", "a">>
    /\ disk[Resolve(TheEdit.path)] = [text |-> <<"a", "a", "a", "a">>, pad |-> 0]

\* C8: a step of apply_diff_edit that finds the file missing, or counts the
\* snippet zero times or more than once in it, ends the call without a write:
\* the disk and the message sequence are as before.
C8_NoWriteOnEditError ==
    [][ (/\ pc = "commit"
         /\ idx > Len(response_data.files_to_create)
         /\ (pc' # pc \/ idx' # idx)
         /\ \/ disk[Resolve(CurrentEdit.path)] = NoFile
            \/ str_count(disk[Resolve(CurrentEdit.path)], CurrentEdit.original_snippet) # 1)
        => /\ pc' # "apply_write"
           /\ disk' = disk
           /\ conversation_history' = conversation_history
           /\ written' = written
           /\ apply_error' \in {"FILE_NOT_FOUND", "NOT_FOUND", "AMBIGUOUS"}
      ]_vars

C8_Witness ==
    /\ apply_error = "AMBIGUOUS"
    /\ results = <<FALSE>>
    /\ outcome = "applied"

\* C9: a review reply without a usable verdict (bad output value, no output,
\* no JSON, failed call) ends the turn in rejection: no retry is started
\* after it, the commit phase is not entered and nothing is written.
C9_InvalidVerdictRejects ==
    review_reply \in InvalidReplies =>
        /\ pc \in {"decide", "prompt", "finished"}
        /\ pc # "decide" => outcome = "rejected"
        /\ review_calls = gen_calls
        /\ commits = 0
        /\ written = <<>>

C9_Witness ==
    /\ review_reply = "BOGUS"
    /\ TurnEnded
    /\ outcome = "rejected"
    /\ attempt = 2

\* C10: no error of a turn terminates the process.
C10_NoErrorTerminates == pc # "crashed"

\* C11: an interrupt that arrives while the stream of a generation or review
\* call is consumed ends that call and the session loop: main takes no step
\* after it, and the interrupted turn has written no file.
C11_InterruptEndsSession ==
    [][/\ pc # "interrupted"
       /\ (outcome' = "interrupted" /\ outcome # "interrupted") =>
             /\ pc \in {"gen_wait", "review_wait"}
             /\ pc' = "interrupted"
             /\ disk' = disk
             /\ written' = <<>>
             /\ commits' = 0]_vars

C11_Witness == pc = "interrupted" /\ gen_calls > 1 /\ remote_calls > 1

TheCreate == response_data.files_to_create[idx]

\* C12: create_file rejects a path with a segment that starts with '~' and a
\* content of more than 5,000,000 characters, and then changes no file, no
\* directory and no message; every other call, the one with a content of
\* exactly 5,000,000 characters included, writes the content.
C12_CreateFileRejects ==
    [][(pc = "commit" /\ idx <= Len(response_data.files_to_create)) =>
         IF \/ \E i \in 1..Len(TheCreate.path) : TheCreate.path[i] \in TildeSegs
            \/ len(TheCreate.content) >= SizeLimit + 1
         THEN /\ disk' = disk
              /\ conversation_history' = conversation_history
         ELSE /\ disk'[Resolve(TheCreate.path)] = TheCreate.content
              /\ \A q \in Ancestors(Resolve(TheCreate.path)) : disk'[q] = Dir
              /\ Len(conversation_history') > Len(conversation_history)]_vars

C12_Witness ==
    /\ pc = "crashed"
    /\ response_data.files_to_create[1].path = NestedPath
    /\ len(response_data.files_to_create[1].content) = SizeLimit + 1
    /\ disk[Resolve(NestedPath)] = NoFile
    /\ disk[<<"/", "w", "d">>] = NoFile

LastWritten == written[Len(written)]
SnapshotsOf(q, h) == {i \in 1..Len(h) : IsFileMsg(h[i]) /\ h[i].path = q}
Oldest(I) == CHOOSE i \in I : \A j \in I : i <= j
Newest(I) == CHOOSE i \in I : \A j \in I : i >= j

\* C13 as stated: after a write by create_file the file holds the content
\* and the lookup of the path in the history returns the content written,
\* whether or not an older snapshot of the path was there.
C13_LookupReturnsWritten ==
    written # <<>> =>
        /\ disk[LastWritten[1]] = LastWritten[2]
        /\ get_file_content_from_history(LastWritten[1], conversation_history)
              = LastWritten[2]

\* C13, amended: after a write by create_file the file holds the content and
\* the newest snapshot of the path in the history carries it; the lookup
\* returns the oldest snapshot of the path, which is the content written
\* when the path had no snapshot before.
C13_SnapshotAppended ==
    written # <<>> =>
        LET I == SnapshotsOf(LastWritten[1], conversation_history) IN
        /\ disk[LastWritten[1]] = LastWritten[2]
        /\ I # {}
        /\ conversation_history[Newest(I)].content = LastWritten[2]
        /\ get_file_content_from_history(LastWritten[1], conversation_history)
              = conversation_history[Oldest(I)].content
        /\ Cardinality(I) = 1 =>
              get_file_content_from_history(LastWritten[1], conversation_history)
                = LastWritten[2]

C13_Witness ==
    /\ written # <<>>
    /\ apply_error = "OK"
    /\ Cardinality(SnapshotsOf(LastWritten[1], conversation_history)) = 2
    /\ get_file_content_from_history(LastWritten[1], conversation_history)
          # LastWritten[2]

\* the content of the first snapshot of q met from the head of h
RECURSIVE FirstSnapshot(_, _)
FirstSnapshot(q, h) ==
    IF h = <<>> THEN None
    ELSE IF Head(h).role = "system" /\ Head(h).kind = "file" /\ Head(h).path = q
         THEN Head(h).content
    ELSE FirstSnapshot(q, Tail(h))

\* C14: get_file_content_from_history returns the content of the first
\* system message, scanning from the oldest, that carries the marker of the
\* normalized path, so the oldest of several snapshots, and None when no
\* message carries the marker.
C14_LookupOldestFirst ==
    \A p \in RawPaths \cup {NestedPath} :
        /\ get_file_content_from_history(p, conversation_history)
              = FirstSnapshot(Resolve(p), conversation_history)
        /\ SnapshotsOf(Resolve(p), conversation_history) = {} <=>
              get_file_content_from_history(p, conversation_history) = None

C14_Witness ==
    LET I == SnapshotsOf(<<"/", "w", "a.txt">>, conversation_history) IN
    /\ pc = "gen_wait"
    /\ user_input = <<"a.txt">>
    /\ Cardinality(I) = 2
    /\ conversation_history[Oldest(I)].content = AAA
    /\ conversation_history[Newest(I)].content = AB
    /\ get_file_content_from_history(<<"..", "w", "a.txt">>, conversation_history) = AAA
    /\ get_file_content_from_history(NestedPath, conversation_history) = None

\* C15: the rebuild at the start of stream_openai_response leaves the base
\* system prompt, then the file snapshots in their order, then the earlier
\* user/assistant messages in their order without the last one when their
\* number is odd, then the new user message; ensure_file_in_context may add
\* one snapshot after it before the remote call.
C15_CurateSequence ==
    [][(pc = "prompt" /\ pc' = "gen_wait") =>
         LET h == conversation_history
             new == conversation_history'
             f == SelectSeq(Tail(h), IsFileMsg)
             ua == SelectSeq(Tail(h), IsUserAssistant)
             keep == Len(ua) - (Len(ua) % 2)
             n == 1 + Len(f) + keep + 1
         IN /\ Len(new) \in {n, n + 1}
            /\ new[1] = h[1]
            /\ \A i \in 1..Len(f) : new[1 + i] = f[i]
            /\ \A i \in 1..keep : new[1 + Len(f) + i] = ua[i]
            /\ new[n] = UserMsg(user_input')
            /\ Len(new) = n + 1 =>
                  /\ new[n + 1] = FileMsg(Resolve(user_input'), disk[Resolve(user_input')])
                  /\ \A i \in 1..Len(f) : f[i].path # Resolve(user_input')]_vars

C15_Witness ==
    /\ pc = "gen_wait"
    /\ Len(conversation_history) = 6
    /\ conversation_history[1] = BaseMsg
    /\ conversation_history[2] = FileMsg(<<"/", "w", "~h", "b.txt">>, AB)
    /\ conversation_history[3] = UaMsg(1)
    /\ conversation_history[4] = UaMsg(2)
    /\ conversation_history[5] = UserMsg(<<"a.txt">>)
    /\ conversation_history[6] = FileMsg(<<"/", "w", "a.txt">>, AB)

\* C16: whenever stream_openai_response rebuilds the history, in the first
\* call of a turn and in every retry, the user/assistant messages it keeps
\* in front of the new user message are even in number.
C16_CurateKeepsPairs ==
    [][(pc \in {"prompt", "decide"} /\ pc' = "gen_wait") =>
         LET ua == SelectSeq(conversation_history', IsUserAssistant) IN
         /\ ua # <<>>
         /\ ua[Len(ua)] = UserMsg(user_input')
         /\ (Len(ua) - 1) % 2 = 0]_vars

C16_Witness ==
    /\ pc = "gen_wait"
    /\ gen_calls = max_attempts
    /\ adds = 1
    /\ Len(SelectSeq(conversation_history, IsUserAssistant)) = 1
    /\ Len(SelectSeq(conversation_history, IsFileMsg)) = 1

IsSystem(m) == m.role = "system"

\* C17: trim_conversation_history with max_pairs = 10 keeps every system
\* message, in the order they had, and the last 20 user/assistant messages,
\* in the order they had; with at most 20 of them it removes none.
C17_TrimKeepsRecent ==
    [][(pc = "prompt" /\ pc' = "prompt") =>
         LET old_ua == SelectSeq(conversation_history, IsUserAssistant)
             new_ua == SelectSeq(conversation_history', IsUserAssistant)
             k == Len(old_ua)
         IN /\ SelectSeq(conversation_history', IsSystem)
                 = SelectSeq(conversation_history, IsSystem)
            /\ Len(conversation_history')
                 = Len(SelectSeq(conversation_history, IsSystem)) + Len(new_ua)
            /\ IF k <= 2 * max_pairs THEN new_ua = old_ua
               ELSE /\ Len(new_ua) = 2 * max_pairs
                    /\ \A i \in 1..(2 * max_pairs) :
                          new_ua[i] = old_ua[k - 2 * max_pairs + i]]_vars

C17_Witness ==
    LET ua == SelectSeq(conversation_history, IsUserAssistant) IN
    /\ pc = "prompt"
    /\ Len(ua) = 2 * max_pairs
    /\ ua[1] = UaMsg(MaxExtra + 1)
    /\ ua[2 * max_pairs] = UaMsg(2 * max_pairs + MaxExtra)
    /\ Len(SelectSeq(conversation_history, IsSystem)) = 1 + MaxSys
    /\ Len(conversation_history) = 1 + MaxSys + 2 * max_pairs

\* C18: "/add" of a path with a ".." segment or with a segment that starts
\* with '~' fails in normalize_path and appends no snapshot to the history.
C18_NormalizeRejects ==
    [][\A p \in RawPaths :
         (/\ pc = "prompt" /\ adds' = adds + 1
          /\ ".." \in Range(p) \/ (\E i \in 1..Len(p) : p[i] \in TildeSegs)
          /\ AddCommand(p)) =>
            conversation_history' = conversation_history]_vars

\* C19 as stated: a generation call that returns a degraded response (text
\* that is no JSON after the brace repair, or a failed remote call) carries
\* no new files and no edits in that response, and the turn that follows
\* writes no file.
C19_DegradedTurnWritesNothing ==
    /\ gen_reply.kind \in DegradedKinds =>
          response_data = AssistantResponse("error", <<>>, <<>>)
    /\ written = <<>>

\* C19, amended: a degraded response carries the error as assistant_reply,
\* no new files and no edits, and no error leaves the call; as long as it is
\* the last response of the turn nothing is written, so a turn that ends
\* with it has written no file.
C19_DegradedResponseWritesNothing ==
    gen_reply.kind \in DegradedKinds =>
        /\ response_data = AssistantResponse("error", <<>>, <<>>)
        /\ pc # "crashed"
        /\ written = <<>>
        /\ results = <<>>

C19_Witness ==
    /\ gen_reply.kind = "bad_json"
    /\ gen_reply.files_to_create # <<>>
    /\ review_response.output = "CORRECT"
    /\ commits = 1
    /\ TurnEnded
    /\ outcome = "applied"

\* C20: after apply_diff_edit has replaced the snippet, its check of the new
\* snippet against the content now in the file gives Ok exactly when the new
\* snippet occurs once in it as an exact substring, and AMBIGUOUS when it
\* occurs more than once.
C20_RevalidateNew ==
    (ApplyReturned /\ apply_error = "OK") =>
        LET post == disk[Resolve(TheEdit.path)]
            again == edit_error(str_count(post, TheEdit.new_snippet))
        IN /\ again = "OK" <=> Occurrences(post, TheEdit.new_snippet) = 1
           /\ again = "AMBIGUOUS" <=> Occurrences(post, TheEdit.new_snippet) > 1

\* C21: generate_review, local validation included, leaves the history and
\* the files as they are, whatever the change-set and whatever the outcome
\* (local NEED_CHANGES, a remote verdict, a reply that cannot be used).
C21_ReviewIsDryRun ==
    [][(pc = "review" \/ pc = "review_wait") =>
         /\ conversation_history' = conversation_history
         /\ disk' = disk]_vars

C21_Witness ==
    /\ pc = "decide"
    /\ review_response.origin = "local"
    /\ review_response.issues[1].kind = "NOT_IN_CONTEXT"
    /\ disk[<<"/", "w", "a.txt">>] # NoFile
    /\ SnapshotsOf(<<"/", "w", "a.txt">>, conversation_history) = {}

\* C22: the messages sent to the generation collaborator for a retry, which
\* are the history at the time of the call, hold the feedback message of
\* the NEED_CHANGES verdict that caused the retry.
C22_RetrySeesFeedback ==
    (pc = "gen_wait" /\ gen_calls > 1) =>
        \E i \in 1..Len(conversation_history) :
            conversation_history[i] = FeedbackMsg(attempt)

\* C23: when the edit of a change-set that the reviewer found CORRECT passed
\* the check against its snapshot but fails against the file on disk at the
\* commit (file missing, snippet absent or found more than once), the turn
\* does not end as "changes applied".
C23_LiveFailureIsAnError ==
    (/\ TurnEnded
     /\ review_response.output = "CORRECT"
     /\ review_response.origin = "remote"
     /\ apply_error \in {"FILE_NOT_FOUND", "NOT_FOUND", "AMBIGUOUS"})
        => outcome # "applied"

\* C24: while other processes change the file, apply_diff_edit writes only
\* when the content it read holds the original snippet exactly once as a
\* substring; the write puts the content computed from that read on disk,
\* whatever the file holds by then.
C24_WritesOnlyOnSingleOccurrence ==
    [][(pc = "apply_write" /\ written' # written) =>
          /\ Occurrences(content_read, CurrentEdit.original_snippet) = 1
          /\ disk'[Resolve(CurrentEdit.path)] = updated_content]_vars

\* C25: generate_review makes the remote review call exactly when every edit
\* of the change-set has a snapshot in the history in which its original
\* snippet is counted once; an edit of a path without a snapshot makes the
\* change-set locally invalid, and a change-set without edits always passes.
C25_LocalValidationPasses ==
    [][pc = "review" =>
         /\ (pc' = "review_wait" /\ remote_calls' = remote_calls + 1)
               <=> FailingEdits = {}
         /\ (\E k \in 1..Len(response_data.files_to_edit) :
                get_file_content_from_history(response_data.files_to_edit[k].path,
                                              conversation_history) = None)
               => /\ pc' = "decide"
                  /\ remote_calls' = remote_calls
                  /\ review_response'.origin = "local"
         /\ response_data.files_to_edit = <<>> => pc' = "review_wait"]_vars

C25_Witness ==
    /\ pc = "review_wait"
    /\ Len(response_data.files_to_edit) >= 1
    /\ local_shorts = 1

\* C26: a verdict INCORRECT or UNECESSARY, at whichever attempt, is the last
\* verdict of its turn: no generation call and no review call follows it,
\* nothing is written, and the turn ends in rejection.
C26_RejectionIsTerminal ==
    \A i \in 1..Len(verdicts) :
        verdicts[i] \in {"INCORRECT", "UNECESSARY"} =>
            /\ i = Len(verdicts)
            /\ gen_calls = i
            /\ review_calls = i
            /\ commits = 0
            /\ written = <<>>
            /\ pc \in {"decide", "prompt", "finished"}
            /\ pc # "decide" => outcome = "rejected"

C26_Witness ==
    /\ TurnEnded
    /\ verdicts = <<"NEED_CHANGES", "UNECESSARY">>
    /\ review_reply = "UNECESSARY"

IsPrefix(s, t) == Len(s) <= Len(t) /\ SubSeq(t, 1, Len(s)) = s
FileMsgsOf(h) == SelectSeq(h, IsFileMsg)
UaMsgsOf(h) == SelectSeq(h, IsUserAssistant)
StreamStarts == pc \in {"prompt", "decide"} /\ pc' = "gen_wait"

\* C27 as stated: apart from trim, every operation, the rebuild at the start
\* of a generation call included, only appends to the message sequence.
C27_AppendOnly ==
    [][IsPrefix(conversation_history, conversation_history')]_vars

\* C27: every step other than the start of a generation call only appends
\* to the message sequence; the start of a generation call keeps the base
\* prompt first, keeps the file snapshots in their order, keeps the
\* user/assistant messages in their order but for at most the last one, and
\* leaves no other message of the old sequence.
C27_AppendOnlyOutsideCuration ==
    [][IF StreamStarts
       THEN /\ conversation_history'[1] = conversation_history[1]
            /\ IsPrefix(FileMsgsOf(conversation_history),
                        FileMsgsOf(conversation_history'))
            /\ \E k \in {0, 1} :
                  /\ k <= Len(UaMsgsOf(conversation_history))
                  /\ IsPrefix(SubSeq(UaMsgsOf(conversation_history), 1,
                                     Len(UaMsgsOf(conversation_history)) - k),
                              UaMsgsOf(conversation_history'))
            /\ \A i \in 2..Len(conversation_history') :
                  IsFileMsg(conversation_history'[i])
                      \/ IsUserAssistant(conversation_history'[i])
       ELSE IsPrefix(conversation_history, conversation_history')]_vars

C27_Witness ==
    /\ pc = "gen_wait"
    /\ gen_calls = 2
    /\ FileMsgsOf(conversation_history) # <<>>
    /\ conversation_history[2].kind = "file"
    /\ \A i \in 1..Len(conversation_history) : conversation_history[i].kind # "feedback"

SnapshotCount(q, h) == Cardinality(SnapshotsOf(q, h))
AddStep(p) == pc = "prompt" /\ adds' = adds + 1 /\ AddCommand(p)
\* the readable files that /add of p offers to the history
FilesOfAdd(p) ==
    IF disk[Resolve(p)] = Dir THEN WalkFiles(Resolve(p), disk)
    ELSE IF disk[Resolve(p)] = NoFile THEN {}
    ELSE {Resolve(p)}
\* the readable file that the user message of a starting generation call names
FilesOfMessage ==
    IF StreamStarts /\ user_input' # NoPath /\ disk[Resolve(user_input')] \notin {NoFile, Dir}
    THEN {Resolve(user_input')} ELSE {}

\* C28 as stated: every way of adding a file (/add of a file, /add of a
\* directory, a file named in the user message, a write by create_file)
\* appends one more snapshot of its path, also when the history has one.
C28_EveryAddAppends ==
    [][/\ \A p \in AddPaths : AddStep(p) =>
             \A q \in FilesOfAdd(p) :
                 SnapshotCount(q, conversation_history')
                     = SnapshotCount(q, conversation_history) + 1
       /\ \A q \in FilesOfMessage :
             SnapshotCount(q, conversation_history')
                 = SnapshotCount(q, conversation_history) + 1
       /\ Len(written') = Len(written) + 1 =>
             SnapshotCount(written'[Len(written')][1], conversation_history')
                 = SnapshotCount(written'[Len(written')][1], conversation_history) + 1
      ]_vars

\* C28: no way of adding a file removes or replaces a snapshot of the
\* history; /add of a single file and a write by create_file append one more
\* snapshot of the path, also when the history has one; /add of a directory
\* and a file named in the user message append a snapshot only for a path
\* that has none in the history.
C28_SnapshotsAccumulate ==
    [][/\ \A p \in AddPaths : AddStep(p) =>
             /\ IsPrefix(conversation_history, conversation_history')
             /\ \A q \in FilesOfAdd(p) :
                   SnapshotCount(q, conversation_history') =
                       IF disk[Resolve(p)] = Dir /\ SnapshotCount(q, conversation_history) > 0
                       THEN SnapshotCount(q, conversation_history)
                       ELSE SnapshotCount(q, conversation_history) + 1
       /\ StreamStarts =>
             /\ IsPrefix(FileMsgsOf(conversation_history), FileMsgsOf(conversation_history'))
             /\ \A q \in FilesOfMessage :
                   SnapshotCount(q, conversation_history') =
                       IF SnapshotCount(q, conversation_history) > 0
                       THEN SnapshotCount(q, conversation_history)
                       ELSE 1
       /\ Len(written') = Len(written) + 1 =>
             /\ IsPrefix(conversation_history, conversation_history')
             /\ SnapshotCount(written'[Len(written')][1], conversation_history')
                   = SnapshotCount(written'[Len(written')][1], conversation_history) + 1
      ]_vars

C28_Witness ==
    /\ pc = "gen_wait"
    /\ gen_calls = 1
    /\ adds = 1
    /\ user_input = <<"a.txt">>
    /\ Len(conversation_history) = 3
    /\ IsFileMsg(conversation_history[2])
    /\ conversation_history[2].path = <<"/", "w", "a.txt">>
    /\ conversation_history[3] = UserMsg(<<"a.txt">>)

\* C29: in every run in which user turns start again and again, a call of
\* trim_conversation_history changes the history again and again, and the
\* number of user/assistant messages is again and again at most
\* 2 * max_pairs.
C29_TrimmedAgainAndAgain ==
    ([]<><<UserTurnLive>>_vars) =>
        /\ []<><<Trim>>_vars
        /\ []<>(Len(UaMsgsOf(conversation_history)) <= 2 * max_pairs)

\* C30: a free-text turn whose collaborator calls all return, and which the
\* user does not interrupt, reaches its terminal outcome, commit or
\* rejection, with main back at the prompt.
C30_TurnTerminates ==
    [](pc = "gen_wait" =>
          <>(\/ pc = "prompt" /\ outcome \in {"applied", "rejected"}
             \/ pc = "interrupted"))

\* C31: in every turn at most max_attempts generation calls are made,
\* generate_review is called once for each generation call that has returned
\* and never otherwise, and the remote review calls are never more than the
\* generation calls.
C31_CallBudget ==
    /\ gen_calls <= max_attempts
    /\ remote_calls + local_shorts <= review_calls
    /\ remote_calls <= gen_calls
    /\ pc \in {"gen_wait", "review"} => review_calls = gen_calls - 1
    /\ pc \in {"review_wait", "decide", "commit", "apply_write", "crashed"}
          => review_calls = gen_calls
    /\ TurnEnded => review_calls = gen_calls
    /\ pc = "interrupted" => review_calls \in {gen_calls - 1, gen_calls}

C31_Witness ==
    /\ TurnEnded
    /\ outcome = "applied"
    /\ gen_calls = max_attempts
    /\ review_calls = max_attempts
    /\ remote_calls = max_attempts - 1
    /\ local_shorts = 1

\* C32: the history never holds an assistant message and never more than
\* one user message; while a generation call is pending, the one message of
\* the history that is not a system message is the user message of that call.
C32_OneUserMessage ==
    LET ua == UaMsgsOf(conversation_history) IN
    /\ \A i \in 1..Len(conversation_history) :
          conversation_history[i].role # "assistant"
    /\ Len(ua) <= 1
    /\ pc = "gen_wait" => ua = <<UserMsg(user_input)>>

C32_Witness ==
    /\ pc = "gen_wait"
    /\ gen_calls = max_attempts
    /\ user_input = <<"a.txt">>
    /\ UaMsgsOf(conversation_history) = <<UserMsg(<<"a.txt">>)>>
    /\ Len(conversation_history) = 3

C34_EnsureIsIdempotent ==
    [][/\ (StreamStarts /\ user_input' # NoPath) =>
             LET q == Resolve(user_input')
                 h == conversation_history
             IN IF SnapshotsOf(q, h) # {}
                THEN /\ FileMsgsOf(conversation_history') = FileMsgsOf(h)
                     /\ get_file_content_from_history(q, conversation_history')
                           = get_file_content_from_history(q, h)
                ELSE IF disk[q] \in {NoFile, Dir}
                THEN FileMsgsOf(conversation_history') = FileMsgsOf(h)
                ELSE FileMsgsOf(conversation_history')
                        = Append(FileMsgsOf(h), FileMsg(q, disk[q]))
       /\ \A q \in CanonPaths : SnapshotCount(q, conversation_history') <= 1
       /\ LET once == ensure_file_in_context(<<"a.txt">>, conversation_history, disk) IN
             SnapshotsOf(<<"/", "w", "a.txt">>, once) # {} =>
                 ensure_file_in_context(<<"a.txt">>, once, disk') = once
      ]_vars

C34_Witness ==
    /\ pc = "gen_wait"
    /\ gen_calls = max_attempts
    /\ externals = 1
    /\ user_input = <<"a.txt">>
    /\ SnapshotCount(<<"/", "w", "a.txt">>, conversation_history) = 1
    /\ disk[<<"/", "w", "a.txt">>] \in DiskContents
    /\ get_file_content_from_history(<<"a.txt">>, conversation_history)
          # disk[<<"/", "w", "a.txt">>]

====
